---- MODULE Spec2Model ----
(***************************************************************************)
(* Model of the sentiment-analysis gateway (src/backend/backend.js): the   *)
(* two Express endpoints POST /analyze/:id and POST /google/analyze, the   *)
(* promise callbacks they register, and the pure helpers that normalise    *)
(* the upstream lookup body.                                               *)
(*                                                                         *)
(* JavaScript values are tagged records so that values of different        *)
(* runtime types can be compared: t is the kind of the value.  Objects map *)
(* property names to values; a property that is not in the domain reads as *)
(* undefined, as in JavaScript.                                            *)
(***************************************************************************)
EXTENDS Naturals, Sequences, FiniteSets, TLC

\* ---------------------------------------------------------------- bounds
NumReqs == 2
MaxRecs == 2

Reqs == 1..NumReqs

\* ------------------------------------------------------ JavaScript values
Undefined == [t |-> "undefined"]
Null == [t |-> "null"]
Str(s) == [t |-> "string", v |-> s]
Num(s) == [t |-> "number", v |-> s]
Obj(f) == [t |-> "object", f |-> f]
Arr(s) == [t |-> "array", s |-> s]
EmptyObj == Obj(<<>>)

\* A thrown TypeError: `message` is what error.message reads.
TypeError(msg) == [t |-> "error", message |-> msg]

\* Completion of an expression: a value, or a thrown exception.
Ok(v) == [ok |-> TRUE, val |-> v]
Throw(e) == [ok |-> FALSE, val |-> e]

\* A settled promise.
Fulfilled(v) == [state |-> "fulfilled", value |-> v]
Rejected(e) == [state |-> "rejected", value |-> e]
Pending == [state |-> "pending", value |-> Undefined]

\* typeof v
Typeof(v) ==
  CASE v.t = "undefined" -> "undefined"
    [] v.t = "string" -> "string"
    [] v.t = "number" -> "number"
    [] OTHER -> "object"

\* ToBoolean(v), the test of `v ? a : b` and of `if (v)`.
Truthy(v) ==
  CASE v.t \in {"undefined", "null"} -> FALSE
    [] v.t = "string" -> v.v # ""
    [] v.t = "number" -> v.v \notin {"0", "NaN"}
    [] OTHER -> TRUE

\* o[k] where o is neither undefined nor null.
Get(o, k) ==
  CASE o.t = "object" -> IF k \in DOMAIN o.f THEN o.f[k] ELSE Undefined
    [] o.t = "array" -> IF k = "0" /\ Len(o.s) >= 1 THEN o.s[1] ELSE Undefined
    [] o.t = "error" -> IF k = "message" THEN Str(o.message) ELSE Undefined
    [] OTHER -> Undefined

\* The member expression o.k (or o[k]): throws when o is undefined or null.
Member(o, k) ==
  IF o.t \in {"undefined", "null"}
  THEN Throw(TypeError("Cannot read properties of " \o o.t \o " (reading '" \o k \o "')"))
  ELSE Ok(Get(o, k))

\* c.k where c is a completion: a throw propagates.
Then(c, k) == IF c.ok THEN Member(c.val, k) ELSE c

\* JSON.stringify followed by the caller's parse: properties whose value is
\* undefined are dropped, undefined array elements become null, and an Error
\* has no enumerable property.
RECURSIVE ToJSON(_)
ToJSON(v) ==
  CASE v.t = "object" ->
         Obj([k \in {j \in DOMAIN v.f : v.f[j].t # "undefined"} |-> ToJSON(v.f[k])])
    [] v.t = "array" ->
         Arr([i \in 1..Len(v.s) |-> IF v.s[i].t = "undefined" THEN Null ELSE ToJSON(v.s[i])])
    [] v.t = "error" -> EmptyObj
    [] OTHER -> v

\* ------------------------------------------------------------ HTTP status
BAD_REQUEST == 400
OK == 200
UNAUTHORIZED == 401

\* ------------------------------------------------- tweet lookup: helpers
\* A variant of tweetIdIsValid that asks for a non-empty sequence under data.
tweetIdIsValid_nonEmpty(tweet_response) ==
  LET d == Member(tweet_response, "data")
  IN  IF d.ok THEN Ok(d.val.t = "array" /\ Len(d.val.s) >= 1) ELSE d

\* tweetIdIsValid: tweet_response.data ? true : false
tweetIdIsValid(tweet_response) ==
  LET d == Member(tweet_response, "data")
  IN  IF d.ok THEN Ok(Truthy(d.val)) ELSE d

\* A variant of extractId that reads errors[0].id, not errors[0].value.
extractId_errorId(tweet_response) ==
  LET valid == tweetIdIsValid(tweet_response)
  IN  IF ~valid.ok THEN Throw(valid.val)
      ELSE IF valid.val
      THEN Then(Then(Member(tweet_response, "data"), "0"), "id")
      ELSE Then(Then(Member(tweet_response, "errors"), "0"), "id")

\* A variant of extractId that reads the last record of data, not the first.
extractId_last(tweet_response) ==
  LET valid == tweetIdIsValid(tweet_response)
      d == Get(tweet_response, "data")
  IN  IF ~valid.ok THEN Throw(valid.val)
      ELSE IF valid.val
      THEN IF d.t = "array" /\ Len(d.s) >= 1
           THEN Member(d.s[Len(d.s)], "id")
           ELSE Then(Then(Member(tweet_response, "data"), "0"), "id")
      ELSE Then(Then(Member(tweet_response, "errors"), "0"), "value")

\* extractId
extractId(tweet_response) ==
  LET valid == tweetIdIsValid(tweet_response)
  IN  IF ~valid.ok THEN Throw(valid.val)
      ELSE IF valid.val
      THEN Then(Then(Member(tweet_response, "data"), "0"), "id")
      ELSE Then(Then(Member(tweet_response, "errors"), "0"), "value")

\* A variant of extractText that maps title to error and detail to message.
extractText_swapped(tweet_response) ==
  LET valid == tweetIdIsValid(tweet_response)
  IN  IF ~valid.ok THEN Throw(valid.val)
      ELSE IF valid.val
      THEN Then(Then(Member(tweet_response, "data"), "0"), "text")
      ELSE LET e0 == Then(Member(tweet_response, "errors"), "0")
               title == Then(e0, "title")
               detail == Then(e0, "detail")
           IN  IF ~title.ok THEN title
               ELSE IF ~detail.ok THEN detail
               ELSE Ok(Obj([message |-> detail.val, error |-> title.val]))

\* extractText
extractText(tweet_response) ==
  LET valid == tweetIdIsValid(tweet_response)
  IN  IF ~valid.ok THEN Throw(valid.val)
      ELSE IF valid.val
      THEN Then(Then(Member(tweet_response, "data"), "0"), "text")
      ELSE LET e0 == Then(Member(tweet_response, "errors"), "0")
               title == Then(e0, "title")
               detail == Then(e0, "detail")
           IN  IF ~title.ok THEN title
               ELSE IF ~detail.ok THEN detail
               ELSE Ok(Obj([message |-> title.val, error |-> detail.val]))

\* The catch block of sendRequestToTwitter.
CatchResult(error) ==
  Fulfilled(Obj([error |-> Get(error, "message"), full_stack |-> error]))

\* A variant of sendRequestToTwitter without the try/catch.
sendRequestToTwitter_nocatch(twitter_response) ==
  LET twitter_json_data == Member(twitter_response, "data")
      tweet_text == IF twitter_json_data.ok
                    THEN extractText(twitter_json_data.val) ELSE twitter_json_data
      tweet_id == IF twitter_json_data.ok
                  THEN extractId(twitter_json_data.val) ELSE twitter_json_data
  IN  IF ~tweet_text.ok THEN Rejected(tweet_text.val)
      ELSE IF ~tweet_id.ok THEN Rejected(tweet_id.val)
      ELSE Fulfilled(Obj([text |-> tweet_text.val, id |-> tweet_id.val]))

\* sendRequestToTwitter: the promise the async function returns.
sendRequestToTwitter(twitter_response) ==
  LET twitter_json_data == Member(twitter_response, "data")
      tweet_text == IF twitter_json_data.ok
                    THEN extractText(twitter_json_data.val) ELSE twitter_json_data
      tweet_id == IF twitter_json_data.ok
                  THEN extractId(twitter_json_data.val) ELSE twitter_json_data
  IN  IF ~tweet_text.ok THEN CatchResult(tweet_text.val)
      ELSE IF ~tweet_id.ok THEN CatchResult(tweet_id.val)
      ELSE Fulfilled(Obj([text |-> tweet_text.val, id |-> tweet_id.val]))

\* A variant of responseForFrontendIsError without the test against null.
responseForFrontendIsError_noNull(responseForFrontend) ==
  Typeof(Get(responseForFrontend, "text")) = "object"

\* A variant of responseForFrontendIsError that inspects .error, not .text.
responseForFrontendIsError_errorField(responseForFrontend) ==
  /\ Typeof(Get(responseForFrontend, "error")) = "object"
  /\ Get(responseForFrontend, "error") # Null

\* responseForFrontendIsError
responseForFrontendIsError(responseForFrontend) ==
  /\ Typeof(Get(responseForFrontend, "text")) = "object"
  /\ Get(responseForFrontend, "text") # Null

\* ------------------------------------------------ sentiment: the client
\* analyzeSentiment, continued from `await client.analyzeSentiment(...)` with
\* the settled upstream promise: the promise the async function returns.
analyzeSentiment(reply) ==
  IF reply.state = "rejected"
  THEN Fulfilled(Undefined)
  ELSE LET result == Get(reply.value, "0")
           sentiment == Member(result, "documentSentiment")
           score == Then(sentiment, "score")
           magnitude == Then(sentiment, "magnitude")
       IN  IF ~score.ok \/ ~magnitude.ok THEN Fulfilled(Undefined)
           ELSE IF Truthy(result) THEN Fulfilled(result)
           ELSE Fulfilled(Undefined)

\* ------------------------------------------------------------ the inputs
TweetIdLength == 19

Ids == {"short", "1234567890123456789", "12345678901234567890"}
Docs == {"I love this", ""}

SeqsUpTo(S, n) == UNION {[1..k -> S] : k \in 0..n}

TweetRecords ==
  { Obj([id |-> Str("1234567890123456789"), text |-> Str("hello")]),
    Obj([id |-> Str("9876543210987654321")]) }

ErrorRecords ==
  { Obj([value |-> Str("0000000000000000000"),
         title |-> Str("Not Found Error"),
         detail |-> Str("Could not find tweet with id: [0000000000000000000].")]),
    Obj([title |-> Str("Authorization Error")]) }

\* Bodies the lookup can deliver: the data shape, the errors shape (either
\* sequence possibly empty), both fields, neither, JSON null, and a body that
\* did not decode as JSON (axios then leaves the raw string in res.data).
LookupBodies ==
  {Obj([data |-> Arr(s)]) : s \in SeqsUpTo(TweetRecords, MaxRecs)}
    \cup {Obj([errors |-> Arr(s)]) : s \in SeqsUpTo(ErrorRecords, MaxRecs)}
    \cup {Obj([data |-> Arr(<<d>>), errors |-> Arr(<<e>>)]) :
            d \in {CHOOSE x \in TweetRecords : "text" \in DOMAIN x.f},
            e \in {CHOOSE x \in ErrorRecords : "value" \in DOMAIN x.f}}
    \cup {EmptyObj, Null, Str("<html>Bad Gateway</html>")}

\* How the promise of instance.get settles: fulfilled with the axios response
\* object, or rejected (network fault, non-2xx status).
LookupOutcomes ==
  {Fulfilled(Obj([data |-> b, status |-> Num("200")])) : b \in LookupBodies}
    \cup {Rejected(TypeError("Network Error")),
          Rejected(TypeError("Request failed with status code 404"))}

SentimentResults ==
  { Obj([documentSentiment |-> Obj([score |-> Num("0.8"), magnitude |-> Num("0.9")]),
         language |-> Str("en"), sentences |-> Arr(<<>>)]),
    Obj([documentSentiment |-> Obj([score |-> Num("-0.5"), magnitude |-> Num("0.5")]),
         language |-> Str("en"), sentences |-> Arr(<<>>)]) }

\* How the promise of client.analyzeSentiment settles.
SentimentOutcomes ==
  {Fulfilled(Arr(<<res>>)) : res \in SentimentResults}
    \cup {Rejected(TypeError("16 UNAUTHENTICATED")),
          Rejected(TypeError("8 RESOURCE_EXHAUSTED")),
          Rejected(TypeError("3 INVALID_ARGUMENT"))}

\* -------------------------------------------------------------- the state
VARIABLES
  pc,             \* where each request stands
  request,        \* its endpoint and its input (the id or the doc)
  lookupCalls,    \* calls of instance.get issued for the request
  sentimentCalls, \* calls of client.analyzeSentiment issued for the request
  upstream,       \* how the request's upstream promise settled
  result,         \* the promise of sendRequestToTwitter / analyzeSentiment
  responses       \* what was written to the request's response, in order

vars == <<pc, request, lookupCalls, sentimentCalls, upstream, result, responses>>

NoRequest == [endpoint |-> "none", param |-> ""]

JsonResponse(status, data) == [status |-> status, type |-> "json", body |-> ToJSON(data)]
TextResponse(status, text) == [status |-> status, type |-> "text", body |-> Str(text)]

InvalidIdBody ==
  Obj([error |-> Str("Invalid ID."),
       message |-> Str("ID must be a 19-character long Tweet ID.")])

Init ==
  /\ pc = [r \in Reqs |-> "idle"]
  /\ request = [r \in Reqs |-> NoRequest]
  /\ lookupCalls = [r \in Reqs |-> 0]
  /\ sentimentCalls = [r \in Reqs |-> 0]
  /\ upstream = [r \in Reqs |-> Pending]
  /\ result = [r \in Reqs |-> Pending]
  /\ responses = [r \in Reqs |-> <<>>]

\* ---------------------------------------------------- POST /analyze/:id
\* A variant of the length test that only rejects ids that are too short.
IdLengthInvalid_short(id) == Len(id) < TweetIdLength

\* id_length !== 19
IdLengthInvalid(id) == Len(id) # TweetIdLength

\* A variant of the handler without the else: it answers 400 for an id of the
\* wrong length and goes on to issue the lookup all the same.
AnalyzeHandler_noelse(r, id) ==
  /\ pc[r] = "idle"
  /\ request' = [request EXCEPT ![r] = [endpoint |-> "analyze", param |-> id]]
  /\ responses' = [responses EXCEPT
                     ![r] = IF IdLengthInvalid(id)
                            THEN Append(@, JsonResponse(BAD_REQUEST, InvalidIdBody))
                            ELSE @]
  /\ lookupCalls' = [lookupCalls EXCEPT ![r] = @ + 1]
  /\ pc' = [pc EXCEPT ![r] = "lookupPending"]
  /\ UNCHANGED <<sentimentCalls, upstream, result>>

\* The handler of POST /analyze/:id, up to its return: it answers 400, or
\* issues the one lookup call and registers the .then callback.
AnalyzeHandler(r, id) ==
  /\ pc[r] = "idle"
  /\ request' = [request EXCEPT ![r] = [endpoint |-> "analyze", param |-> id]]
  /\ IF IdLengthInvalid(id)
     THEN /\ responses' = [responses EXCEPT
                             ![r] = Append(@, JsonResponse(BAD_REQUEST, InvalidIdBody))]
          /\ pc' = [pc EXCEPT ![r] = "finished"]
          /\ UNCHANGED lookupCalls
     ELSE /\ lookupCalls' = [lookupCalls EXCEPT ![r] = @ + 1]
          /\ pc' = [pc EXCEPT ![r] = "lookupPending"]
          /\ UNCHANGED responses
  /\ UNCHANGED <<sentimentCalls, upstream, result>>

\* A variant that issues the lookup again when the call is rejected.
LookupSettled_retry(r, outcome) ==
  /\ pc[r] = "lookupPending"
  /\ upstream' = [upstream EXCEPT ![r] = outcome]
  /\ IF outcome.state = "fulfilled"
     THEN /\ result' = [result EXCEPT ![r] = sendRequestToTwitter(outcome.value)]
          /\ pc' = [pc EXCEPT ![r] = "resultPending"]
          /\ UNCHANGED lookupCalls
     ELSE /\ lookupCalls' = [lookupCalls EXCEPT ![r] = @ + 1]
          /\ pc' = [pc EXCEPT ![r] = IF lookupCalls[r] < 2 THEN "lookupPending"
                                     ELSE "unhandledRejection"]
          /\ UNCHANGED result
  /\ UNCHANGED <<request, sentimentCalls, responses>>

\* The promise of instance.get settles.  Fulfilled: the .then callback runs
\* sendRequestToTwitter(res) and registers the second callback on its
\* promise.  Rejected: no rejection handler is registered, so nothing runs.
LookupSettled(r, outcome) ==
  /\ pc[r] = "lookupPending"
  /\ upstream' = [upstream EXCEPT ![r] = outcome]
  /\ IF outcome.state = "fulfilled"
     THEN /\ result' = [result EXCEPT ![r] = sendRequestToTwitter(outcome.value)]
          /\ pc' = [pc EXCEPT ![r] = "resultPending"]
     ELSE /\ pc' = [pc EXCEPT ![r] = "unhandledRejection"]
          /\ UNCHANGED result
  /\ UNCHANGED <<request, lookupCalls, sentimentCalls, responses>>

\* A variant of the callback that reads the result from a variable shared by
\* all requests (here: the result of the highest-numbered request that has one).
ResultSettled_shared(r) ==
  /\ pc[r] = "resultPending"
  /\ IF result[r].state = "fulfilled"
     THEN LET last == CHOOSE q \in Reqs :
                        /\ result[q].state = "fulfilled"
                        /\ \A o \in Reqs : result[o].state = "fulfilled" => o <= q
              data == result[last].value
          IN  /\ responses' = [responses EXCEPT
                   ![r] = Append(@, IF responseForFrontendIsError(data)
                                    THEN JsonResponse(BAD_REQUEST, data)
                                    ELSE JsonResponse(OK, data))]
              /\ pc' = [pc EXCEPT ![r] = "finished"]
     ELSE /\ pc' = [pc EXCEPT ![r] = "unhandledRejection"]
          /\ UNCHANGED responses
  /\ UNCHANGED <<request, lookupCalls, sentimentCalls, upstream, result>>

\* A variant of the callback whose classification consumes the text field of
\* the payload (as `delete responseForFrontend.text` after the test would).
ResultSettled_strip(r) ==
  /\ pc[r] = "resultPending"
  /\ IF result[r].state = "fulfilled"
     THEN LET data == result[r].value
              stripped == Obj([k \in DOMAIN data.f \ {"text"} |-> data.f[k]])
          IN  /\ responses' = [responses EXCEPT
                   ![r] = Append(@, IF responseForFrontendIsError(data)
                                    THEN JsonResponse(BAD_REQUEST, stripped)
                                    ELSE JsonResponse(OK, stripped))]
              /\ result' = [result EXCEPT ![r] = Fulfilled(stripped)]
              /\ pc' = [pc EXCEPT ![r] = "finished"]
     ELSE /\ pc' = [pc EXCEPT ![r] = "unhandledRejection"]
          /\ UNCHANGED <<responses, result>>
  /\ UNCHANGED <<request, lookupCalls, sentimentCalls, upstream>>

\* The callback on the promise of sendRequestToTwitter: classify and answer.
\* It is a fulfilment callback only; a rejection has no handler.
ResultSettled(r) ==
  /\ pc[r] = "resultPending"
  /\ IF result[r].state = "fulfilled"
     THEN LET data == result[r].value
          IN  /\ responses' = [responses EXCEPT
                   ![r] = Append(@, IF responseForFrontendIsError(data)
                                    THEN JsonResponse(BAD_REQUEST, data)
                                    ELSE JsonResponse(OK, data))]
              /\ pc' = [pc EXCEPT ![r] = "finished"]
     ELSE /\ pc' = [pc EXCEPT ![r] = "unhandledRejection"]
          /\ UNCHANGED responses
  /\ UNCHANGED <<request, lookupCalls, sentimentCalls, upstream, result>>

\* -------------------------------------------------- POST /google/analyze
\* The handler up to `await analyzeSentiment(doc)`, which itself runs up to
\* `await client.analyzeSentiment(...)`: one upstream call is in flight.
SentimentHandler(r, doc) ==
  /\ pc[r] = "idle"
  /\ request' = [request EXCEPT ![r] = [endpoint |-> "google", param |-> doc]]
  /\ sentimentCalls' = [sentimentCalls EXCEPT ![r] = @ + 1]
  /\ pc' = [pc EXCEPT ![r] = "sentimentPending"]
  /\ UNCHANGED <<lookupCalls, upstream, result, responses>>

\* The upstream sentiment promise settles: analyzeSentiment runs to its end,
\* then the handler resumes after its await, inside its try block.
SentimentSettled(r, outcome) ==
  LET response == analyzeSentiment(outcome)
  IN  /\ pc[r] = "sentimentPending"
      /\ upstream' = [upstream EXCEPT ![r] = outcome]
      /\ result' = [result EXCEPT ![r] = response]
      /\ responses' = [responses EXCEPT
           ![r] = IF response.state = "rejected"
                  THEN Append(@, TextResponse(UNAUTHORIZED, "error"))
                  ELSE IF Truthy(response.value)
                  THEN Append(@, JsonResponse(OK, response.value))
                  ELSE @]
      /\ pc' = [pc EXCEPT ![r] = "finished"]
      /\ UNCHANGED <<request, lookupCalls, sentimentCalls>>

Next ==
  \/ \E r \in Reqs, id \in Ids : AnalyzeHandler(r, id)
  \/ \E r \in Reqs, outcome \in LookupOutcomes : LookupSettled(r, outcome)
  \/ \E r \in Reqs : ResultSettled(r)
  \/ \E r \in Reqs, doc \in Docs : SentimentHandler(r, doc)
  \/ \E r \in Reqs, outcome \in SentimentOutcomes : SentimentSettled(r, outcome)

Spec == Init /\ [][Next]_vars

\* -------------------------------------------------------------- vocabulary
IsAnalyze(r) == request[r].endpoint = "analyze"
IsGoogle(r) == request[r].endpoint = "google"

\* No callback of the request is pending any more.
Terminal(r) == pc[r] \in {"finished", "unhandledRejection"}

\* The body res.data of the fulfilled lookup of request r.
LookupBody(r) == upstream[r].value.f.data

TypeOK ==
  /\ pc \in [Reqs -> {"idle", "lookupPending", "resultPending", "sentimentPending",
                      "finished", "unhandledRejection"}]
  /\ \A r \in Reqs : lookupCalls[r] \in 0..3 /\ sentimentCalls[r] \in 0..1

\* The lookup body has a non-empty sequence under data.
DataNonEmpty(b) ==
  /\ b.t = "object"
  /\ "data" \in DOMAIN b.f
  /\ b.f.data.t = "array"
  /\ Len(b.f.data.s) >= 1

\* The lookup body has no data field and a non-empty sequence under errors.
ErrorsOnly(b) ==
  /\ b.t = "object"
  /\ "data" \notin DOMAIN b.f
  /\ "errors" \in DOMAIN b.f
  /\ b.f.errors.t = "array"
  /\ Len(b.f.errors.s) >= 1

LookupFulfilled(r) == IsAnalyze(r) /\ upstream[r].state = "fulfilled"

\* ------------------------------------------------------------------ C1
\* C1: a request to POST /analyze/:id whose id is not 19 characters long is
\* answered 400 with the Invalid ID body, and no lookup call is issued for it
\* in any state, before or after the response.
C1_InvalidIdRejected ==
  \A r \in Reqs :
    (IsAnalyze(r) /\ Len(request[r].param) # TweetIdLength) =>
      /\ responses[r] =
           << [status |-> BAD_REQUEST, type |-> "json",
               body |-> Obj([error |-> Str("Invalid ID."),
                             message |-> Str("ID must be a 19-character long Tweet ID.")])] >>
      /\ lookupCalls[r] = 0
      /\ upstream[r] = Pending

C1_Witness ==
  \E r \in Reqs :
    /\ IsAnalyze(r)
    /\ Len(request[r].param) > TweetIdLength
    /\ pc[r] = "finished"
    /\ Len(responses[r]) = 1

\* ------------------------------------------------------------------ C2
\* C2: when the lookup of a 19-character id is fulfilled with a body whose
\* data is a non-empty sequence, sendRequestToTwitter yields
\* {id: data[0].id, text: data[0].text} whatever records follow, the result
\* is classified as success, and the endpoint answers 200 with that payload.
C2_DataVariantNormalised ==
  \A r \in Reqs :
    (LookupFulfilled(r) /\ DataNonEmpty(LookupBody(r))) =>
      LET d0 == LookupBody(r).f.data.s[1]
          expected == Obj([id |-> Get(d0, "id"), text |-> Get(d0, "text")])
      IN  /\ pc[r] \in {"resultPending", "finished"}
          /\ result[r] = Fulfilled(expected)
          /\ ~responseForFrontendIsError(result[r].value)
          /\ pc[r] = "finished" =>
               responses[r] = << [status |-> OK, type |-> "json", body |-> ToJSON(expected)] >>

C2_Witness ==
  \E r \in Reqs :
    /\ LookupFulfilled(r)
    /\ DataNonEmpty(LookupBody(r))
    /\ Len(LookupBody(r).f.data.s) >= 2
    /\ LookupBody(r).f.data.s[1] # LookupBody(r).f.data.s[2]
    /\ pc[r] = "finished"
    /\ responses[r][1].body =
         Obj([id |-> Str("1234567890123456789"), text |-> Str("hello")])

\* ------------------------------------------------------------------ C3
\* C3 as stated: for a lookup body with no data field and a non-empty errors
\* sequence, the normalized result (and the response body) is
\* {message: errors[0].title, error: errors[0].detail}, classified as error.
C3_Original ==
  \A r \in Reqs :
    (LookupFulfilled(r) /\ ErrorsOnly(LookupBody(r))) =>
      LET e0 == LookupBody(r).f.errors.s[1]
          expected == Obj([message |-> Get(e0, "title"), error |-> Get(e0, "detail")])
      IN  /\ result[r] = Fulfilled(expected)
          /\ pc[r] = "finished" =>
               responses[r] = << [status |-> BAD_REQUEST, type |-> "json",
                                  body |-> ToJSON(expected)] >>

\* C3 as amended: for such a body the normalized result is
\* {text: {message: errors[0].title, error: errors[0].detail},
\*  id: errors[0].value}: the message/error pair sits under the text field,
\* not at the top level.  The result is classified as error and its JSON
\* serialization is the body of the 400 response.
C3_ErrorVariantNormalised ==
  \A r \in Reqs :
    (LookupFulfilled(r) /\ ErrorsOnly(LookupBody(r))) =>
      LET e0 == LookupBody(r).f.errors.s[1]
          pair == Obj([message |-> Get(e0, "title"), error |-> Get(e0, "detail")])
          expected == Obj([text |-> pair, id |-> Get(e0, "value")])
      IN  /\ pc[r] \in {"resultPending", "finished"}
          /\ result[r] = Fulfilled(expected)
          /\ responseForFrontendIsError(result[r].value)
          /\ pc[r] = "finished" =>
               responses[r] = << [status |-> BAD_REQUEST, type |-> "json",
                                  body |-> ToJSON(expected)] >>

C3_Witness ==
  \E r \in Reqs :
    /\ LookupFulfilled(r)
    /\ ErrorsOnly(LookupBody(r))
    /\ pc[r] = "finished"
    /\ Get(Get(responses[r][1].body, "text"), "message") = Str("Not Found Error")
    /\ Get(Get(responses[r][1].body, "text"), "error") =
         Str("Could not find tweet with id: [0000000000000000000].")

\* ------------------------------------------------------------------ C4
\* C4: when the lookup of a 19-character id is fulfilled at the transport
\* level with the error-array shape (no data, non-empty errors), the endpoint
\* answers with status 400 and never with 200.
C4_ErrorShapeIs400 ==
  \A r \in Reqs :
    (LookupFulfilled(r) /\ ErrorsOnly(LookupBody(r))) =>
      /\ \A i \in 1..Len(responses[r]) : responses[r][i].status = BAD_REQUEST
      /\ pc[r] = "finished" => Len(responses[r]) = 1

C4_Witness ==
  \E r \in Reqs :
    /\ LookupFulfilled(r)
    /\ ErrorsOnly(LookupBody(r))
    /\ pc[r] = "finished"
    /\ responses[r][1].status = BAD_REQUEST

\* ------------------------------------------------------------------ C5
\* C5: when the lookup call of a 19-character id fails at the transport level
\* (the promise of instance.get is rejected), the request is answered with an
\* error response: once no callback of the request is pending, exactly one
\* response with an error status has been sent.
C5_TransportFailureReported ==
  \A r \in Reqs :
    (IsAnalyze(r) /\ upstream[r].state = "rejected" /\ Terminal(r)) =>
      /\ Len(responses[r]) = 1
      /\ responses[r][1].status >= BAD_REQUEST

\* ------------------------------------------------------------------ C6
\* C6: when the upstream sentiment call of a request to POST /google/analyze
\* fails, the endpoint answers 401 with the plain-text body "error": once the
\* handler has run to its end, that response has been sent.
C6_SentimentFailureIs401 ==
  \A r \in Reqs :
    (IsGoogle(r) /\ upstream[r].state = "rejected" /\ Terminal(r)) =>
      responses[r] = << [status |-> UNAUTHORIZED, type |-> "text", body |-> Str("error")] >>

\* ------------------------------------------------------------------ C7
\* C7: when the upstream sentiment call succeeds with the sentiment summary
\* {score, magnitude}, the endpoint answers 200 with exactly that summary
\* object, not with a larger upstream structure.
C7_SentimentSummaryOnly ==
  \A r \in Reqs :
    (IsGoogle(r) /\ upstream[r].state = "fulfilled" /\ Terminal(r)) =>
      LET summary == Get(Get(upstream[r].value, "0"), "documentSentiment")
      IN  responses[r] = << [status |-> OK, type |-> "json", body |-> summary] >>

\* ------------------------------------------------------------------ C8
\* C8: a request to POST /analyze/:id with a 19-character id issues exactly
\* one lookup call over its whole lifetime: one from the moment the handler
\* has run, and never a second one, however the first call ends.
C8_ExactlyOneLookup ==
  \A r \in Reqs :
    (IsAnalyze(r) /\ Len(request[r].param) = TweetIdLength) => lookupCalls[r] = 1

C8_Witness ==
  \E r \in Reqs :
    /\ IsAnalyze(r)
    /\ Len(request[r].param) = TweetIdLength
    /\ upstream[r].state = "rejected"
    /\ Terminal(r)
    /\ lookupCalls[r] = 1

\* ------------------------------------------------------------------ C9
\* A success payload: exactly the fields id and text, both strings.
SuccessPayload(b) ==
  /\ b.t = "object"
  /\ DOMAIN b.f = {"id", "text"}
  /\ b.f.id.t = "string"
  /\ b.f.text.t = "string"

\* A failure result of the lookup client: one that carries an error field.
FailureResult(v) == v.t = "object" /\ "error" \in DOMAIN v.f

\* C9: every 200 response of POST /analyze/:id carries {id, text} with both
\* fields strings, and a failure result of the lookup client (the one built
\* when field extraction throws included) is sent with status 400, never 200.
C9_OkResponsesAreSuccessPayloads ==
  \A r \in Reqs :
    IsAnalyze(r) =>
      \A i \in 1..Len(responses[r]) :
        /\ responses[r][i].status = OK => SuccessPayload(responses[r][i].body)
        /\ (result[r].state = "fulfilled" /\ FailureResult(result[r].value)) =>
             responses[r][i].status = BAD_REQUEST

\* ----------------------------------------------------------------- C10
\* C10: for every body the lookup delivers, malformed ones included,
\* sendRequestToTwitter resolves to a result object and never rejects; when
\* field extraction throws, the result is the failure result that carries
\* the exception's message (and the exception as full_stack).
C10_AlwaysResolves ==
  \A r \in Reqs :
    LookupFulfilled(r) =>
      LET text == extractText(LookupBody(r))
          id == extractId(LookupBody(r))
          thrown == IF ~text.ok THEN text.val ELSE id.val
      IN  /\ pc[r] \in {"resultPending", "finished"}
          /\ result[r].state = "fulfilled"
          /\ result[r].value.t = "object"
          /\ (~text.ok \/ ~id.ok) =>
               result[r].value =
                 Obj([error |-> Str(thrown.message), full_stack |-> thrown])

C10_Witness ==
  \E r \in Reqs :
    /\ LookupFulfilled(r)
    /\ LookupBody(r) = EmptyObj
    /\ result[r].state = "fulfilled"
    /\ Get(result[r].value, "error") =
         Str("Cannot read properties of undefined (reading '0')")
    /\ \E q \in Reqs :
         /\ LookupFulfilled(q)
         /\ LookupBody(q) = Obj([data |-> Arr(<<>>)])
         /\ Get(result[q].value, "error") =
              Str("Cannot read properties of undefined (reading 'text')")

\* ----------------------------------------------------------------- C11
\* C11: every response of either endpoint has a status in {200, 400, 401},
\* and no fault unwinds past the endpoint handler: no request ends in an
\* unhandled exception or an unhandled promise rejection.
C11_StatusesAndNoEscapingFault ==
  \A r \in Reqs :
    /\ \A i \in 1..Len(responses[r]) :
         responses[r][i].status \in {OK, BAD_REQUEST, UNAUTHORIZED}
    /\ pc[r] # "unhandledRejection"

\* ----------------------------------------------------------------- C16
\* C16: at most one response is ever written per request, on either
\* endpoint, under every upstream outcome and every interleaving.
C16_AtMostOneResponse ==
  \A r \in Reqs : Len(responses[r]) <= 1

C16_Witness ==
  \E r, q \in Reqs :
    /\ IsAnalyze(r) /\ pc[r] = "finished" /\ Len(responses[r]) = 1
    /\ Len(request[r].param) # TweetIdLength
    /\ IsAnalyze(q) /\ pc[q] = "finished" /\ Len(responses[q]) = 1
    /\ upstream[q].state = "fulfilled"

\* ----------------------------------------------------------------- C12
\* What a request whose callbacks have all run has been sent, computed from
\* its own input and its own upstream reply alone.
ResponsesFor(req, up) ==
  IF req.endpoint = "analyze"
  THEN IF Len(req.param) # TweetIdLength
       THEN << JsonResponse(BAD_REQUEST, InvalidIdBody) >>
       ELSE IF up.state = "fulfilled"
       THEN LET p == sendRequestToTwitter(up.value)
            IN  << JsonResponse(IF responseForFrontendIsError(p.value)
                                THEN BAD_REQUEST ELSE OK, p.value) >>
       ELSE << >>
  ELSE LET p == analyzeSentiment(up)
       IN  IF Truthy(p.value) THEN << JsonResponse(OK, p.value) >> ELSE << >>

\* The response of each request depends on its own input and reply only.
C12_OwnInputOnly ==
  \A r \in Reqs :
    /\ Terminal(r) => responses[r] = ResponsesFor(request[r], upstream[r])
    /\ ~Terminal(r) => responses[r] = << >>

\* A request that waits is never held up by the others: the callback it waits
\* for can run in every state, whatever the other requests are doing.
C12_NeverBlocked ==
  \A r \in Reqs :
    /\ pc[r] = "idle" => ENABLED AnalyzeHandler(r, "1234567890123456789")
    /\ pc[r] = "idle" => ENABLED SentimentHandler(r, "I love this")
    /\ pc[r] = "lookupPending" =>
         ENABLED LookupSettled(r, Rejected(TypeError("Network Error")))
    /\ pc[r] = "resultPending" => ENABLED ResultSettled(r)
    /\ pc[r] = "sentimentPending" =>
         ENABLED SentimentSettled(r, Rejected(TypeError("16 UNAUTHENTICATED")))

\* Every step reads and writes the state of one request only.
C12_OneRequestPerStep ==
  \E r \in Reqs :
    \A q \in Reqs \ {r} :
      /\ pc'[q] = pc[q]
      /\ request'[q] = request[q]
      /\ lookupCalls'[q] = lookupCalls[q]
      /\ sentimentCalls'[q] = sentimentCalls[q]
      /\ upstream'[q] = upstream[q]
      /\ result'[q] = result[q]
      /\ responses'[q] = responses[q]

\* C12: concurrent requests are independent: under every interleaving of the
\* requests and their upstream replies, the response of a request is
\* determined by its own input and its own upstream reply, every step touches
\* the state of one request only, and a request that waits on its upstream
\* call never prevents another from being handled.
C12_RequestsIndependent ==
  /\ [](C12_OwnInputOnly /\ C12_NeverBlocked)
  /\ [][C12_OneRequestPerStep]_vars

C12_Witness ==
  \E r, q \in Reqs :
    /\ r # q
    /\ IsAnalyze(r) /\ pc[r] = "lookupPending"
    /\ IsAnalyze(q) /\ pc[q] = "finished" /\ upstream[q].state = "fulfilled"
    /\ Len(responses[q]) = 1
    /\ responses[r] = << >>

\* ----------------------------------------------------------------- C13
\* C13: classification leaves the payload as it was: after the callback has
\* classified and answered, the stored result is still the one the lookup
\* client returned, classifying it again gives the boolean the status was
\* chosen by, and the body sent is the serialization of that very result.
C13_ClassificationPure ==
  \A r \in Reqs :
    (LookupFulfilled(r) /\ pc[r] = "finished") =>
      /\ result[r] = sendRequestToTwitter(upstream[r].value)
      /\ Len(responses[r]) = 1
      /\ responses[r][1].body = ToJSON(result[r].value)
      /\ responses[r][1].status \in {OK, BAD_REQUEST}
      /\ responses[r][1].status = BAD_REQUEST <=>
           responseForFrontendIsError(result[r].value)

C13_Witness ==
  \E r, q \in Reqs :
    /\ LookupFulfilled(r) /\ pc[r] = "finished"
    /\ responseForFrontendIsError(result[r].value)
    /\ responses[r][1].status = BAD_REQUEST
    /\ LookupFulfilled(q) /\ pc[q] = "finished"
    /\ ~responseForFrontendIsError(result[q].value)
    /\ responses[q][1].status = OK

\* ------------------------------------- a second specification: the bodies
\* The values a record of data can carry under text: strings, another
\* primitive, null, structured values, or nothing at all.
TextValues ==
  { Str("hello"), Str(""), Num("5"), Null,
    Obj([lang |-> Str("en")]), Arr(<< >>), Arr(<< Str("hello") >>) }

ShapeError == CHOOSE x \in ErrorRecords : "value" \in DOMAIN x.f

\* Lookup bodies that vary the value under text and the value under data.
ShapeBodies ==
  {Obj([data |-> Arr(<< Obj([id |-> Str("1234567890123456789"), text |-> t]) >>)]) :
     t \in TextValues}
    \cup {Obj([data |-> Arr(s)]) : s \in SeqsUpTo(TweetRecords, 1)}
    \cup {Obj([errors |-> Arr(s)]) : s \in SeqsUpTo({ShapeError}, 1)}
    \cup {Obj([data |-> d, errors |-> Arr(<< ShapeError >>)]) :
            d \in {Null, Str(""), Arr(<< >>)}}
    \cup {Obj([data |-> d]) : d \in {Null, Str("")}}
    \cup {EmptyObj}

ShapeOutcomes ==
  {Fulfilled(Obj([data |-> b, status |-> Num("200")])) : b \in ShapeBodies}

\* The identifier endpoint alone, its lookup answered with the bodies above.
NextShapes ==
  \/ \E r \in Reqs, id \in Ids : AnalyzeHandler(r, id)
  \/ \E r \in Reqs, outcome \in ShapeOutcomes : LookupSettled(r, outcome)
  \/ \E r \in Reqs : ResultSettled(r)

SpecShapes == Init /\ [][NextShapes]_vars

\* ----------------------------------------------------------------- C14
\* The kinds of value that are structured objects other than null.
StructuredKinds == {"object", "array", "error"}

\* C14: responseForFrontendIsError is true exactly when the value under text
\* is a structured object that is not null; it is false for a string, another
\* primitive, null and an absent text.  Stated on what the endpoint does with
\* the result: status 400 exactly for those results.
C14_ErrorIffTextIsObject ==
  \A r \in Reqs :
    (LookupFulfilled(r) /\ result[r].state = "fulfilled") =>
      LET text == Get(result[r].value, "text")
      IN  /\ responseForFrontendIsError(result[r].value) <=> text.t \in StructuredKinds
          /\ pc[r] = "finished" =>
               (responses[r][1].status = BAD_REQUEST <=> text.t \in StructuredKinds)

C14_Witness ==
  \E r, q \in Reqs :
    /\ LookupFulfilled(r) /\ pc[r] = "finished"
    /\ "text" \in DOMAIN result[r].value.f
    /\ result[r].value.f.text = Null
    /\ responses[r][1].status = OK
    /\ LookupFulfilled(q) /\ pc[q] = "finished"
    /\ Get(result[q].value, "text") = Arr(<< >>)
    /\ responses[q][1].status = BAD_REQUEST

\* ----------------------------------------------------------------- C15
\* The discriminator of the code took the data path for this body.
DataPath(b) == tweetIdIsValid(b).ok /\ tweetIdIsValid(b).val

ReadingOfUndefined(k) ==
  Str("Cannot read properties of undefined (reading '" \o k \o "')")

C17_ErrorObjectUnderText ==
  \A r \in Reqs :
    (LookupFulfilled(r) /\ ErrorsOnly(LookupBody(r))) =>
      LET e0 == LookupBody(r).f.errors.s[1]
          v == result[r].value
      IN  /\ result[r].state = "fulfilled"
          /\ DOMAIN v.f = {"text", "id"}
          /\ v.f.id = Get(e0, "value")
          /\ v.f.text.t = "object"
          /\ DOMAIN v.f.text.f = {"message", "error"}
          /\ v.f.text.f.message = Get(e0, "title")
          /\ v.f.text.f.error = Get(e0, "detail")
          /\ responseForFrontendIsError(v)
          /\ ~responseForFrontendIsError(Obj([k \in DOMAIN v.f \ {"text"} |-> v.f[k]]))
          /\ pc[r] = "finished" => responses[r][1].status = BAD_REQUEST

C17_Witness ==
  \E r \in Reqs :
    /\ LookupFulfilled(r)
    /\ ErrorsOnly(LookupBody(r))
    /\ pc[r] = "finished"
    /\ Get(result[r].value, "id") = Str("0000000000000000000")
    /\ Get(responses[r][1].body, "id") = Str("0000000000000000000")

====
